---- MODULE Spec2Model ----
(***************************************************************************)
(* Model of the css selector builder of src/src/05-objects-tasks.js:       *)
(* class BaseSelector (lines 117-201) and the facade cssSelectorBuilder    *)
(* (lines 203-231).                                                        *)
(*                                                                         *)
(* The heap is the sequence of BaseSelector instances created so far; an   *)
(* instance is referred to by its index.  Strings are TLA+ strings, and    *)
(* template literals and Array.prototype.join are string concatenation.    *)
(***************************************************************************)
EXTENDS Naturals, Sequences, FiniteSets, TLC

VARIABLES heap, ghost, last, nest, ncombine

vars == <<heap, ghost, last, nest, ncombine>>

(* ------------------------------ bounds --------------------------------- *)

\* Total number of addSelector calls (fragments pushed) over all instances.
MaxFragments == 3

\* Number of addSelector calls on the one instance of SpecChain.
MaxChain == 4

\* Total number of combine calls.
MaxCombines == 2

\* Inputs: the value strings handed to the fragment methods and the
\* combinator strings handed to combine.
Values == {"a", "b"}

Combinators == {"+", ">"}

\* What a specification explores.  Spec lets every operation (combine
\* included) act on any number of instances holding up to MaxFragments
\* fragments in all, each fragment with the value "a", so that the six kinds
\* give six different texts.  SpecChain follows one instance through fluent
\* appends of up to MaxChain fragments with both values.
FullBounds ==
    [values |-> {"a"}, fragments |-> MaxFragments, single |-> FALSE]

ChainBounds ==
    [values |-> Values, fragments |-> MaxChain, single |-> TRUE]

(* ------------------------------ constants ------------------------------ *)

\* The type tags passed to addSelector (lines 138-163, 205-225).
Types == {"elem", "#", ".", "attr", ":", "::"}

\* POSITIONS of checkOrder (lines 188-195).
POSITIONS ==
    ("elem" :> 1) @@ ("#" :> 2) @@ ("." :> 3) @@ ("attr" :> 4) @@ (":" :> 5) @@ ("::" :> 6)

\* The two Error messages thrown by addSelector (lines 129 and 133).
DuplicateError ==
    "Element, id and pseudo-element should not occur more then one time inside the selector"

OrderError ==
    "Selector parts should be arranged in the following order: element, id, class, attribute, pseudo-class, pseudo-element"

\* The call returned normally (nothing was thrown).
NoError == "none"

\* No instance: what a call that throws hands to its caller.
Null == 0

(* ------------------------------ helpers -------------------------------- *)

\* Array.prototype.join('') (line 173).
RECURSIVE join(_)
join(arr) ==
    IF arr = <<>> THEN "" ELSE Head(arr) \o join(Tail(arr))

\* Array.prototype.filter(x => x === t).length (lines 179-181).
filterCount(arr, t) ==
    Len(SelectSeq(arr, LAMBDA x : x = t))

\* One insertion of the stable sort by POSITIONS: x goes after every element
\* whose position is not greater than its own.
RECURSIVE insertSorted(_, _)
insertSorted(x, s) ==
    IF s = <<>> THEN <<x>>
    ELSE IF POSITIONS[Head(s)] > POSITIONS[x]
         THEN <<x>> \o s
         ELSE <<Head(s)>> \o insertSorted(x, Tail(s))

\* The sort with its comparator reversed (POSITIONS[b] - POSITIONS[a]).
RECURSIVE sortByPosition_descending(_)
sortByPosition_descending(arr) ==
    IF arr = <<>> THEN <<>>
    ELSE LET rest == sortByPosition_descending(SubSeq(arr, 1, Len(arr) - 1))
             x == arr[Len(arr)]
             before == SelectSeq(rest, LAMBDA y : POSITIONS[y] >= POSITIONS[x])
             after == SelectSeq(rest, LAMBDA y : POSITIONS[y] < POSITIONS[x])
         IN  before \o <<x>> \o after

\* [...arr].sort((a, b) => POSITIONS[a] - POSITIONS[b]) (line 198): a stable
\* sort of a copy.
RECURSIVE sortByPosition(_)
sortByPosition(arr) ==
    IF arr = <<>> THEN <<>>
    ELSE insertSorted(arr[Len(arr)], sortByPosition(SubSeq(arr, 1, Len(arr) - 1)))

(* --------------------------- class BaseSelector ------------------------ *)

\* checkUniqueSelectors without its test of '::'.
checkUniqueSelectors_withoutPseudoElement(this) ==
    IF Len(this.selectorTypes) < 2 THEN TRUE
    ELSE IF \/ filterCount(this.selectorTypes, "elem") > 1
            \/ filterCount(this.selectorTypes, "#") > 1
         THEN FALSE
         ELSE TRUE

\* checkUniqueSelectors comparing each count with 2 instead of 1.
checkUniqueSelectors_moreThanTwo(this) ==
    IF Len(this.selectorTypes) < 2 THEN TRUE
    ELSE IF \/ filterCount(this.selectorTypes, "elem") > 2
            \/ filterCount(this.selectorTypes, "#") > 2
            \/ filterCount(this.selectorTypes, "::") > 2
         THEN FALSE
         ELSE TRUE

\* checkUniqueSelectors (lines 176-185).
checkUniqueSelectors(this) ==
    IF Len(this.selectorTypes) < 2 THEN TRUE
    ELSE IF \/ filterCount(this.selectorTypes, "elem") > 1
            \/ filterCount(this.selectorTypes, "#") > 1
            \/ filterCount(this.selectorTypes, "::") > 1
         THEN FALSE
         ELSE TRUE

\* checkOrder sorting this.selectorTypes itself instead of a copy, so that the
\* array is compared with itself.
checkOrder_sortedInPlace(this) ==
    LET ordered == sortByPosition(this.selectorTypes)
    IN  \A i \in 1..Len(ordered) : ordered[i] = ordered[i]

\* checkOrder comparing only the newest type with the one before it.
checkOrder_lastPairOnly(this) ==
    LET n == Len(this.selectorTypes)
    IN  n < 2 \/ POSITIONS[this.selectorTypes[n - 1]] <= POSITIONS[this.selectorTypes[n]]

\* checkOrder (lines 187-200).
checkOrder(this) ==
    LET ordered == sortByPosition(this.selectorTypes)
    IN  \A i \in 1..Len(this.selectorTypes) : this.selectorTypes[i] = ordered[i]

\* addSelector running checkOrder before checkUniqueSelectors.
addSelector_orderFirst(h, self, value, type) ==
    LET pushed == [h EXCEPT ![self].selectors = Append(@, value),
                            ![self].selectorTypes = Append(@, type)]
    IN  IF ~checkOrder(pushed[self])
        THEN [heap |-> pushed, raised |-> OrderError]
        ELSE IF ~checkUniqueSelectors(pushed[self])
             THEN [heap |-> pushed, raised |-> DuplicateError]
             ELSE [heap |-> pushed, raised |-> NoError]

\* addSelector undoing its two pushes before it throws.
addSelector_rollingBack(h, self, value, type) ==
    LET pushed == [h EXCEPT ![self].selectors = Append(@, value),
                            ![self].selectorTypes = Append(@, type)]
    IN  IF ~checkUniqueSelectors(pushed[self])
        THEN [heap |-> h, raised |-> DuplicateError]
        ELSE IF ~checkOrder(pushed[self])
             THEN [heap |-> h, raised |-> OrderError]
             ELSE [heap |-> pushed, raised |-> NoError]

\* addSelector (lines 124-135) on instance self of heap h: the two pushes,
\* then the two checks; the pushes are not undone when a check throws.
addSelector(h, self, value, type) ==
    LET pushed == [h EXCEPT ![self].selectors = Append(@, value),
                            ![self].selectorTypes = Append(@, type)]
    IN  IF ~checkUniqueSelectors(pushed[self])
        THEN [heap |-> pushed, raised |-> DuplicateError]
        ELSE IF ~checkOrder(pushed[self])
             THEN [heap |-> pushed, raised |-> OrderError]
             ELSE [heap |-> pushed, raised |-> NoError]

\* A fluent method body: this.addSelector(...); return this.
fluent(h, self, text, type) ==
    LET r == addSelector(h, self, text, type)
    IN  [heap |-> r.heap, raised |-> r.raised,
         ret |-> IF r.raised = NoError THEN self ELSE Null]

\* element (lines 137-140).
element(h, self, value) ==
    fluent(h, self, value, "elem")

\* id (lines 142-145).
id(h, self, value) ==
    fluent(h, self, "#" \o value, "#")

\* class (lines 147-150).
class(h, self, value) ==
    fluent(h, self, "." \o value, ".")

\* attr (lines 152-155).
attr(h, self, value) ==
    fluent(h, self, "[" \o value \o "]", "attr")

\* pseudoClass (lines 157-160).
pseudoClass(h, self, value) ==
    fluent(h, self, ":" \o value, ":")

\* pseudoElement rendering with one colon.
pseudoElement_oneColon(h, self, value) ==
    fluent(h, self, ":" \o value, "::")

\* pseudoElement (lines 162-165).
pseudoElement(h, self, value) ==
    fluent(h, self, "::" \o value, "::")

\* combine pushing the combinator without the two spaces around it.
combine_tokenUnspaced(h, self, combinator, selector2) ==
    [heap |-> [h EXCEPT ![self].selectors =
                   @ \o <<combinator>> \o h[selector2].selectors],
     raised |-> NoError,
     ret |-> self]

\* combine pushing only the first entry of selector2.selectors.
combine_firstOnly(h, self, combinator, selector2) ==
    [heap |-> [h EXCEPT ![self].selectors =
                   @ \o <<" " \o combinator \o " ">>
                     \o SubSeq(h[selector2].selectors, 1, 1)],
     raised |-> NoError,
     ret |-> self]

\* combine that also merges selector2.selectorTypes and runs the uniqueness
\* check on the result.
combine_validating(h, self, combinator, selector2) ==
    LET merged == [h EXCEPT ![self].selectors =
                       @ \o <<" " \o combinator \o " ">> \o h[selector2].selectors,
                            ![self].selectorTypes = @ \o h[selector2].selectorTypes]
    IN  IF ~checkUniqueSelectors(merged[self])
        THEN [heap |-> merged, raised |-> DuplicateError, ret |-> Null]
        ELSE [heap |-> merged, raised |-> NoError, ret |-> self]

\* combine moving the entries out of selector2.selectors instead of copying
\* them.
combine_consuming(h, self, combinator, selector2) ==
    LET moved == [h EXCEPT ![selector2].selectors = <<>>]
    IN  [heap |-> [moved EXCEPT ![self].selectors =
                       h[self].selectors \o <<" " \o combinator \o " ">>
                           \o h[selector2].selectors],
         raised |-> NoError,
         ret |-> self]

\* combine pushing selector2.selectorTypes as well.
combine_mergingTypes(h, self, combinator, selector2) ==
    [heap |-> [h EXCEPT ![self].selectors =
                   @ \o <<" " \o combinator \o " ">> \o h[selector2].selectors,
                        ![self].selectorTypes = @ \o h[selector2].selectorTypes],
     raised |-> NoError,
     ret |-> self]

\* combine (lines 167-170): selector2.selectors is spread before the push, so
\* a self-combine appends the array as it was before the call.
combine(h, self, combinator, selector2) ==
    [heap |-> [h EXCEPT ![self].selectors =
                   @ \o <<" " \o combinator \o " ">> \o h[selector2].selectors],
     raised |-> NoError,
     ret |-> self]

\* stringify that empties this.selectors while joining it.
stringify_draining(h, self) ==
    [heap |-> [h EXCEPT ![self].selectors = <<>>],
     raised |-> NoError,
     ret |-> join(h[self].selectors)]

\* stringify (lines 172-174).
stringify(h, self) ==
    [heap |-> h, raised |-> NoError, ret |-> join(h[self].selectors)]

\* constructor (lines 118-122): a fresh instance with two empty arrays, then
\* addSelector.  When addSelector throws, no instance reaches the caller.
BaseSelector(h, value, type) ==
    LET fresh == Append(h, [selectors |-> <<>>, selectorTypes |-> <<>>])
        r == addSelector(fresh, Len(fresh), value, type)
    IN  IF r.raised = NoError
        THEN [heap |-> r.heap, raised |-> NoError, ret |-> Len(fresh)]
        ELSE [heap |-> h, raised |-> r.raised, ret |-> Null]

(* --------------------------- cssSelectorBuilder ------------------------ *)

\* cssSelectorBuilder.element (lines 204-206).
cssSelectorBuilder_element(h, value) ==
    BaseSelector(h, value, "elem")

\* cssSelectorBuilder.id (lines 208-210).
cssSelectorBuilder_id(h, value) ==
    BaseSelector(h, "#" \o value, "#")

\* cssSelectorBuilder.class (lines 212-214).
cssSelectorBuilder_class(h, value) ==
    BaseSelector(h, "." \o value, ".")

\* cssSelectorBuilder.attr (lines 216-218).
cssSelectorBuilder_attr(h, value) ==
    BaseSelector(h, "[" \o value \o "]", "attr")

\* cssSelectorBuilder.pseudoClass (lines 220-222).
cssSelectorBuilder_pseudoClass(h, value) ==
    BaseSelector(h, ":" \o value, ":")

\* cssSelectorBuilder.pseudoElement (lines 224-226).
cssSelectorBuilder_pseudoElement(h, value) ==
    BaseSelector(h, "::" \o value, "::")

\* cssSelectorBuilder.combine returning its third argument.
cssSelectorBuilder_combine_returnsSecond(h, selector1, combinator, selector2) ==
    [combine(h, selector1, combinator, selector2) EXCEPT !.ret = selector2]

\* cssSelectorBuilder.combine (lines 228-230).
cssSelectorBuilder_combine(h, selector1, combinator, selector2) ==
    combine(h, selector1, combinator, selector2)

(* ------------------------------ state ---------------------------------- *)

\* heap[i] is instance i: its selectors and selectorTypes arrays (lines
\* 119-120).  ghost[i] records, for instance i, what was done to it:
\*   appended: the (type, value) of every addSelector call on it, in order;
\*   parts:    for each entry of selectors, the type of the fragment it
\*             renders, or "comb" for a combinator token;
\*   raised:   whether an addSelector call on it has thrown;
\*   combined: whether it has been the left operand of a combine.
\* last is the last call made: the method, its receiver and arguments, what
\* it threw, the instance it returned, the string it returned (stringify),
\* and the heap and ghost as they were before the call.
\* nest is set by a combine whose right operand is the value of the combine
\* evaluated just before it, as in combine(X, c1, combine(Y, c2, Z)): the
\* operands, the combinators and the heap before the inner combine.
\* ncombine counts the combine calls made.

NoCall ==
    [op |-> "init", self |-> Null, arg |-> Null, type |-> "", value |-> "",
     comb |-> "", raised |-> NoError, ret |-> Null, out |-> "",
     before |-> [heap |-> <<>>, ghost |-> <<>>]]

NoNest ==
    [X |-> Null, Y |-> Null, Z |-> Null, c1 |-> "", c2 |-> "", start |-> <<>>]

Instances == 1..Len(heap)

RECURSIVE totalFragments(_)
totalFragments(h) ==
    IF h = <<>> THEN 0 ELSE Len(Head(h).selectorTypes) + totalFragments(Tail(h))

Init ==
    /\ heap = <<>>
    /\ ghost = <<>>
    /\ last = NoCall
    /\ nest = NoNest
    /\ ncombine = 0

(* ------------------------------ calls ---------------------------------- *)

\* The call just made, with the state it was made in.
Called(op, self, arg, type, value, comb, r, out) ==
    [op |-> op, self |-> self, arg |-> arg, type |-> type, value |-> value,
     comb |-> comb, raised |-> r.raised, ret |-> r.ret, out |-> out,
     before |-> [heap |-> heap, ghost |-> ghost]]

\* A call of a fragment method of instance self, with result r.
CallFluent(B, op, self, type, value, r) ==
    /\ totalFragments(heap) < B.fragments
    /\ heap' = r.heap
    /\ ghost' = [ghost EXCEPT
                    ![self].appended = Append(@, [type |-> type, value |-> value]),
                    ![self].parts = Append(@, type),
                    ![self].raised = @ \/ r.raised # NoError]
    /\ last' = Called(op, self, Null, type, value, "", r, "")
    /\ nest' = NoNest
    /\ ncombine' = ncombine

\* A call of a fragment factory of the facade, with result r.
CallFactory(B, op, type, value, r) ==
    /\ totalFragments(heap) < B.fragments
    /\ B.single => heap = <<>>
    /\ heap' = r.heap
    /\ ghost' = IF r.raised = NoError
                THEN Append(ghost, [appended |-> <<[type |-> type, value |-> value]>>,
                                    parts |-> <<type>>,
                                    raised |-> FALSE,
                                    combined |-> FALSE])
                ELSE ghost
    /\ last' = Called(op, Null, Null, type, value, "", r, "")
    /\ nest' = NoNest
    /\ ncombine' = ncombine

Element(B) ==
    \E self \in Instances, value \in B.values :
        CallFluent(B, "element", self, "elem", value, element(heap, self, value))

Id(B) ==
    \E self \in Instances, value \in B.values :
        CallFluent(B, "id", self, "#", value, id(heap, self, value))

Class(B) ==
    \E self \in Instances, value \in B.values :
        CallFluent(B, "class", self, ".", value, class(heap, self, value))

Attr(B) ==
    \E self \in Instances, value \in B.values :
        CallFluent(B, "attr", self, "attr", value, attr(heap, self, value))

PseudoClass(B) ==
    \E self \in Instances, value \in B.values :
        CallFluent(B, "pseudoClass", self, ":", value, pseudoClass(heap, self, value))

PseudoElement(B) ==
    \E self \in Instances, value \in B.values :
        CallFluent(B, "pseudoElement", self, "::", value,
                   pseudoElement(heap, self, value))

NewElement(B) ==
    \E value \in B.values :
        CallFactory(B, "cssSelectorBuilder.element", "elem", value,
                    cssSelectorBuilder_element(heap, value))

NewId(B) ==
    \E value \in B.values :
        CallFactory(B, "cssSelectorBuilder.id", "#", value,
                    cssSelectorBuilder_id(heap, value))

NewClass(B) ==
    \E value \in B.values :
        CallFactory(B, "cssSelectorBuilder.class", ".", value,
                    cssSelectorBuilder_class(heap, value))

NewAttr(B) ==
    \E value \in B.values :
        CallFactory(B, "cssSelectorBuilder.attr", "attr", value,
                    cssSelectorBuilder_attr(heap, value))

NewPseudoClass(B) ==
    \E value \in B.values :
        CallFactory(B, "cssSelectorBuilder.pseudoClass", ":", value,
                    cssSelectorBuilder_pseudoClass(heap, value))

NewPseudoElement(B) ==
    \E value \in B.values :
        CallFactory(B, "cssSelectorBuilder.pseudoElement", "::", value,
                    cssSelectorBuilder_pseudoElement(heap, value))

\* cssSelectorBuilder.combine(selector1, combinator, selector2).
Combine ==
    \E selector1 \in Instances, selector2 \in Instances, combinator \in Combinators :
        LET r == cssSelectorBuilder_combine(heap, selector1, combinator, selector2)
        IN  /\ ncombine < MaxCombines
            /\ ncombine' = ncombine + 1
            /\ heap' = r.heap
            /\ ghost' = [ghost EXCEPT
                            ![selector1].parts = @ \o <<"comb">> \o ghost[selector2].parts,
                            ![selector1].combined = TRUE]
            /\ last' = Called("combine", selector1, selector2, "", "", combinator, r, "")
            /\ nest' = IF last.op = "combine" /\ last.ret = selector2
                       THEN [X |-> selector1, Y |-> selector2, Z |-> last.arg,
                             c1 |-> combinator, c2 |-> last.comb,
                             start |-> last.before.heap]
                       ELSE NoNest

\* selector.stringify().
Stringify ==
    \E self \in Instances :
        LET r == stringify(heap, self)
        IN  /\ heap' = r.heap
            /\ ghost' = ghost
            /\ last' = Called("stringify", self, Null, "", "", "",
                              [raised |-> r.raised, ret |-> Null], r.ret)
            /\ nest' = NoNest
            /\ ncombine' = ncombine

Next ==
    \/ Element(FullBounds)
    \/ Id(FullBounds)
    \/ Class(FullBounds)
    \/ Attr(FullBounds)
    \/ PseudoClass(FullBounds)
    \/ PseudoElement(FullBounds)
    \/ NewElement(FullBounds)
    \/ NewId(FullBounds)
    \/ NewClass(FullBounds)
    \/ NewAttr(FullBounds)
    \/ NewPseudoClass(FullBounds)
    \/ NewPseudoElement(FullBounds)
    \/ Combine
    \/ Stringify

Spec == Init /\ [][Next]_vars

\* One instance, created by one factory call and extended by fluent appends
\* only (no combine).
NextChain ==
    \/ Element(ChainBounds)
    \/ Id(ChainBounds)
    \/ Class(ChainBounds)
    \/ Attr(ChainBounds)
    \/ PseudoClass(ChainBounds)
    \/ PseudoElement(ChainBounds)
    \/ NewElement(ChainBounds)
    \/ NewId(ChainBounds)
    \/ NewClass(ChainBounds)
    \/ NewAttr(ChainBounds)
    \/ NewPseudoClass(ChainBounds)
    \/ NewPseudoElement(ChainBounds)
    \/ Stringify

SpecChain == Init /\ [][NextChain]_vars

(* ------------------------------ claims --------------------------------- *)

\* The six fluent fragment methods and the six facade factories.
FluentOps == {"element", "id", "class", "attr", "pseudoClass", "pseudoElement"}

FactoryOps ==
    {"cssSelectorBuilder.element", "cssSelectorBuilder.id", "cssSelectorBuilder.class",
     "cssSelectorBuilder.attr", "cssSelectorBuilder.pseudoClass",
     "cssSelectorBuilder.pseudoElement"}

\* The kinds that may occur once: ELEMENT, ID, PSEUDO_ELEMENT.
UniqueTypes == {"elem", "#", "::"}

\* The rank order ELEMENT < ID < CLASS < ATTRIBUTE < PSEUDO_CLASS < PSEUDO_ELEMENT.
Rank(t) ==
    CASE t = "elem" -> 1 [] t = "#" -> 2 [] t = "." -> 3
      [] t = "attr" -> 4 [] t = ":" -> 5 [] t = "::" -> 6

\* The rendered text of a fragment.
Rendered(t, v) ==
    CASE t = "elem" -> v
      [] t = "#" -> "#" \o v
      [] t = "." -> "." \o v
      [] t = "attr" -> "[" \o v \o "]"
      [] t = ":" -> ":" \o v
      [] t = "::" -> "::" \o v

RECURSIVE ConcatRendered(_)
ConcatRendered(frags) ==
    IF frags = <<>> THEN ""
    ELSE Rendered(Head(frags).type, Head(frags).value) \o ConcatRendered(Tail(frags))

\* How many entries of seq equal t.
Count(seq, t) ==
    Cardinality({j \in 1..Len(seq) : seq[j] = t})

\* The kinds of the fragments appended to an instance, in order.
KindsOf(g) ==
    [j \in 1..Len(g.appended) |-> g.appended[j].type]

\* The instance the last call acted on, as it was before the call.
SelfBefore == last.before.ghost[last.self]

\* C1: on an instance made by one factory call and extended only by fluent
\* appends that all returned normally (no combine), stringify() is the
\* concatenation, in append order and without separators, of the rendered
\* texts of the appended fragments.
C1_StringifyConcatenates ==
    \A i \in Instances :
        (~ghost[i].raised /\ ~ghost[i].combined)
            => stringify(heap, i).ret = ConcatRendered(ghost[i].appended)

\* C1 witness: stringify was called on a chain of three fragments, none
\* rejected, whose last two carry different values.
C1_Witness ==
    /\ last.op = "stringify"
    /\ ~ghost[last.self].raised
    /\ ~ghost[last.self].combined
    /\ Len(ghost[last.self].appended) = 3
    /\ ghost[last.self].appended[2].value # ghost[last.self].appended[3].value
    /\ last.out = ConcatRendered(ghost[last.self].appended)

\* C2 as stated: appending an ELEMENT, ID or PSEUDO_ELEMENT fragment to an
\* instance whose whole sequence (whatever produced it: factory, fluent
\* appends, combine) already holds a fragment of that kind raises the
\* duplicate-part error.
C2_DuplicateOverWholeSequence ==
    ( /\ last.op \in FluentOps
      /\ last.type \in UniqueTypes
      /\ Count(SelfBefore.parts, last.type) >= 1 )
        => last.raised = DuplicateError

\* C3 as stated: appending a fragment of lower rank than some fragment
\* appended before to the same instance, on which no append has raised,
\* raises the order error.
C3_LowerRankRaisesOrderError ==
    ( /\ last.op \in FluentOps
      /\ ~SelfBefore.raised
      /\ \E j \in 1..Len(SelfBefore.appended) :
             Rank(SelfBefore.appended[j].type) > Rank(last.type) )
        => last.raised = OrderError

\* C3 amended: such an append always raises: the duplicate-part error when
\* the kind is an ELEMENT, ID or PSEUDO_ELEMENT the instance already had
\* appended, the order error otherwise.
C3_LowerRankRaises ==
    ( /\ last.op \in FluentOps
      /\ ~SelfBefore.raised
      /\ \E j \in 1..Len(SelfBefore.appended) :
             Rank(SelfBefore.appended[j].type) > Rank(last.type) )
        => last.raised =
             IF last.type \in UniqueTypes /\ Count(KindsOf(SelfBefore), last.type) >= 1
             THEN DuplicateError
             ELSE OrderError

\* C3 witness: id appended after class on an instance that never raised; the
\* order error is thrown.
C3_Witness ==
    /\ last.op = "id"
    /\ ~SelfBefore.raised
    /\ KindsOf(SelfBefore) = <<".">>
    /\ last.raised = OrderError

\* C4: combine(A, c, B) makes A's sequence A's old sequence, then the one
\* token " c ", then B's old sequence, and its stringify() is
\* a + " " + c + " " + b for the outputs a, b just before the call.
C4_CombineConcatenates ==
    last.op = "combine" =>
        LET a == stringify(last.before.heap, last.self).ret
            b == stringify(last.before.heap, last.arg).ret
        IN  /\ stringify(heap, last.ret).ret = a \o " " \o last.comb \o " " \o b
            /\ heap[last.ret].selectors =
                   last.before.heap[last.self].selectors
                       \o <<" " \o last.comb \o " ">>
                       \o last.before.heap[last.arg].selectors

\* C4 witness: a combine of two different instances, the left one holding two
\* fragments.
C4_Witness ==
    /\ last.op = "combine"
    /\ last.self # last.arg
    /\ Len(last.before.heap[last.self].selectors) = 2
    /\ Len(heap[last.self].selectors) = 4

\* C5: on an instance extended only by appends that returned normally (no
\* combine), a further append returns normally exactly when the new kind's
\* rank is at least that of the last appended fragment and the new kind is
\* not an ELEMENT, ID or PSEUDO_ELEMENT the instance already holds.
C5_AppendAcceptedIff ==
    ( /\ last.op \in FluentOps
      /\ ~SelfBefore.raised
      /\ ~SelfBefore.combined )
        => ( last.raised = NoError
               <=> /\ Rank(last.type)
                        >= Rank(SelfBefore.appended[Len(SelfBefore.appended)].type)
                   /\ ~( /\ last.type \in UniqueTypes
                         /\ Count(KindsOf(SelfBefore), last.type) >= 1 ) )

\* C5 witness: a class accepted as the fourth class in a row.
C5_Witness ==
    /\ last.op = "class"
    /\ last.raised = NoError
    /\ KindsOf(ghost[last.self]) = <<".", ".", ".", ".">>

\* C6 as stated: an instance on which no append has raised holds, in its
\* whole sequence, at most one ELEMENT, one ID and one PSEUDO_ELEMENT fragment.
C6_WholeSequenceUnique ==
    \A i \in Instances :
        ~ghost[i].raised =>
            \A t \in UniqueTypes : Count(ghost[i].parts, t) <= 1

\* C6 amended: an instance on which no append has raised holds at most one
\* ELEMENT, one ID and one PSEUDO_ELEMENT among the fragments appended to it
\* by its factory and its fluent appends (the kinds it records); fragments
\* merged in by combine are not counted.
C6_AppendedUnique ==
    \A i \in Instances :
        ~ghost[i].raised =>
            \A t \in UniqueTypes :
                /\ Count(KindsOf(ghost[i]), t) <= 1
                /\ Count(heap[i].selectorTypes, t) <= 1

\* C6 witness: an instance that never raised and whose sequence holds two
\* ELEMENT fragments, one of them merged in by combine.
C6_Witness ==
    \E i \in Instances :
        /\ ~ghost[i].raised
        /\ Count(ghost[i].parts, "elem") = 2
        /\ Count(heap[i].selectorTypes, "elem") = 1

\* C7: a fluent append that returns normally, and combine, return the very
\* instance they acted on (combine: its first argument), changed in place, and
\* create no instance; a facade factory returns a new instance and leaves the
\* existing ones alone.
C7_ReturnsSameInstance ==
    /\ (last.op \in FluentOps /\ last.raised = NoError) =>
           /\ last.ret = last.self
           /\ Len(heap) = Len(last.before.heap)
           /\ heap[last.ret] # last.before.heap[last.ret]
    /\ last.op = "combine" =>
           /\ last.ret = last.self
           /\ Len(heap) = Len(last.before.heap)
           /\ heap[last.ret] # last.before.heap[last.ret]
    /\ last.op \in FactoryOps =>
           /\ last.ret = Len(last.before.heap) + 1
           /\ Len(heap) = Len(last.before.heap) + 1
           /\ \A i \in 1..Len(last.before.heap) : heap[i] = last.before.heap[i]

\* C7 witness: a combine of two different instances returned its first
\* argument.
C7_Witness ==
    /\ last.op = "combine"
    /\ last.self # last.arg
    /\ last.ret = last.self

\* C8: stringify() changes nothing: every instance's selectors and
\* selectorTypes are as before the call, and a further call returns the
\* string just returned.
C8_StringifyPure ==
    last.op = "stringify" =>
        /\ heap = last.before.heap
        /\ stringify(heap, last.self).ret = last.out
        /\ stringify(heap, last.self).heap = heap

\* C8 witness: stringify was called on an instance that had been combined.
C8_Witness ==
    /\ last.op = "stringify"
    /\ ghost[last.self].combined
    /\ Len(heap[last.self].selectors) >= 3

\* C9: combine and stringify never raise, whatever kinds the join puts into
\* one sequence; an error comes only from a fragment-append call.
C9_OnlyAppendsRaise ==
    /\ last.op \in {"combine", "stringify"} => last.raised = NoError
    /\ last.raised # NoError => last.op \in FluentOps \cup FactoryOps

\* C9 witness: a combine returned normally although it put two ELEMENT
\* fragments into one sequence.
C9_Witness ==
    /\ last.op = "combine"
    /\ last.raised = NoError
    /\ Count(ghost[last.self].parts, "elem") = 2

\* C10: for distinct X, Y, Z, combine(X, c1, combine(Y, c2, Z)).stringify()
\* is x + " " + c1 + " " + y + " " + c2 + " " + z for the outputs x, y, z
\* before the two combine calls.
C10_NestedCombine ==
    ( /\ nest.X # Null
      /\ Cardinality({nest.X, nest.Y, nest.Z}) = 3 )
        => stringify(heap, last.ret).ret =
               stringify(nest.start, nest.X).ret \o " " \o nest.c1 \o " "
                   \o stringify(nest.start, nest.Y).ret \o " " \o nest.c2 \o " "
                   \o stringify(nest.start, nest.Z).ret

\* C10 witness: a nested combine of three distinct instances with two
\* different combinators.
C10_Witness ==
    /\ nest.X # Null
    /\ Cardinality({nest.X, nest.Y, nest.Z}) = 3
    /\ nest.c1 # nest.c2
    /\ last.op = "combine"
    /\ last.ret = nest.X

\* Whether the ranks of a sequence of kinds never decrease.
NonDecreasing(kinds) ==
    \A j \in 1..Len(kinds) : \A k \in j..Len(kinds) : Rank(kinds[j]) <= Rank(kinds[k])

\* Whether appending kind t after kinds puts it below an earlier rank.
BreaksOrder(kinds, t) ==
    \E j \in 1..Len(kinds) : Rank(kinds[j]) > Rank(t)

\* Whether kind t repeats an ELEMENT, ID or PSEUDO_ELEMENT of kinds.
Duplicates(kinds, t) ==
    t \in UniqueTypes /\ Count(kinds, t) >= 1

\* C11: an append that both repeats an ELEMENT, ID or PSEUDO_ELEMENT the
\* instance already recorded and breaks the rank order raises the
\* duplicate-part error; the order error is raised only when no ELEMENT, ID
\* or PSEUDO_ELEMENT occurs twice among the recorded kinds.
C11_DuplicateBeforeOrder ==
    last.op \in FluentOps =>
        /\ ( /\ Duplicates(KindsOf(SelfBefore), last.type)
             /\ BreaksOrder(KindsOf(SelfBefore), last.type) )
               => last.raised = DuplicateError
        /\ last.raised = OrderError
               => \A t \in UniqueTypes : Count(KindsOf(ghost[last.self]), t) <= 1

\* C11 witness: id, class, id: the second id is both a duplicate and out of
\* order, and the duplicate-part error is thrown.
C11_Witness ==
    /\ last.op = "id"
    /\ KindsOf(SelfBefore) = <<"#", ".">>
    /\ last.raised = DuplicateError

\* C12: once an append on an instance has raised, every later append on that
\* instance raises too, whatever its kind and whatever calls came between.
C12_RaisedStaysRaised ==
    (last.op \in FluentOps /\ SelfBefore.raised) => last.raised # NoError

\* C12 witness: after an earlier raise, an append that neither repeats a kind
\* nor goes below an earlier rank still raises.
C12_Witness ==
    /\ last.op \in FluentOps
    /\ SelfBefore.raised
    /\ ~Duplicates(KindsOf(SelfBefore), last.type)
    /\ ~BreaksOrder(KindsOf(SelfBefore), last.type)
    /\ last.raised = OrderError

\* C13: an append that raises is not undone: the rejected fragment's text and
\* kind stay at the end of the two arrays, and stringify() gives the output
\* from before the append followed by the rejected text.
C13_RejectedFragmentStays ==
    (last.op \in FluentOps /\ last.raised # NoError) =>
        /\ heap[last.self].selectors =
               Append(last.before.heap[last.self].selectors,
                      Rendered(last.type, last.value))
        /\ heap[last.self].selectorTypes =
               Append(last.before.heap[last.self].selectorTypes, last.type)
        /\ stringify(heap, last.self).ret =
               stringify(last.before.heap, last.self).ret
                   \o Rendered(last.type, last.value)

\* C13 witness: a second id was rejected with the duplicate-part error and
\* its text is the last entry of selectors.
C13_Witness ==
    /\ last.op = "id"
    /\ last.raised = DuplicateError
    /\ KindsOf(SelfBefore) = <<"#">>
    /\ heap[last.self].selectors[Len(heap[last.self].selectors)] = "#" \o last.value

\* C14: instances share no state: an append or a combine on one instance
\* leaves the selectors, the selectorTypes and the stringify() value of every
\* other instance as they were; so combine(L, c, R) leaves R alone, and an
\* append to R afterwards leaves L alone.
C14_OtherInstancesUnchanged ==
    last.op \in FluentOps \cup {"combine"} =>
        /\ Len(heap) = Len(last.before.heap)
        /\ \A i \in Instances :
               i # last.self =>
                   /\ heap[i] = last.before.heap[i]
                   /\ stringify(heap, i).ret = stringify(last.before.heap, i).ret

\* C14 witness: after combine(L, "+", R) with L = element and R = id, a class
\* was appended to R; L still reads "a + #a".
C14_Witness ==
    /\ last.op = "class"
    /\ last.self = 2
    /\ Len(heap) = 2
    /\ heap[2].selectors = <<"#a", ".a">>
    /\ heap[1].selectors = <<"a", " + ", "#a">>
    /\ stringify(heap, 1).ret = "a + #a"

\* The order check "the new rank is at least the greatest rank recorded".
MaxRankAccepts(kinds, t) ==
    \A j \in 1..Len(kinds) : Rank(t) >= Rank(kinds[j])

\* The implemented order check, run on the recorded kinds with t pushed.
SortCheckAccepts(kinds, t) ==
    checkOrder([selectors |-> <<>>, selectorTypes |-> Append(kinds, t)])

\* Whether an append of kind t after kinds returns normally when the order
\* check is the maximum check (the uniqueness check as it is).
MaxCheckAppendAccepted(kinds, t) ==
    /\ \A u \in UniqueTypes : Count(Append(kinds, t), u) <= 1
    /\ MaxRankAccepts(kinds, t)

\* C15 as stated: at every append, also after an earlier append on the
\* instance has raised, the append returns normally under the implemented
\* order check exactly when it would under the check "the new rank is at
\* least the greatest rank already recorded".
C15_SortCheckIsMaxCheck ==
    last.op \in FluentOps =>
        ( last.raised = NoError
            <=> MaxCheckAppendAccepted(last.before.heap[last.self].selectorTypes,
                                       last.type) )

\* C15 amended: the two checks agree at every append to an instance whose
\* recorded kinds are in non-decreasing rank order, which is the case of
\* every instance on which no append has raised; and then, unless the
\* duplicate-part error is thrown, the order error is thrown exactly when
\* the maximum check rejects.
C15_SortCheckIsMaxCheckWhileOrdered ==
    /\ \A i \in Instances :
           ~ghost[i].raised => NonDecreasing(heap[i].selectorTypes)
    /\ ( /\ last.op \in FluentOps
         /\ NonDecreasing(last.before.heap[last.self].selectorTypes) )
           => LET kinds == last.before.heap[last.self].selectorTypes
              IN  /\ SortCheckAccepts(kinds, last.type)
                         <=> MaxRankAccepts(kinds, last.type)
                  /\ last.raised # DuplicateError
                         => ( last.raised = OrderError
                                  <=> ~MaxRankAccepts(kinds, last.type) )
                  /\ last.raised = NoError
                         <=> MaxCheckAppendAccepted(kinds, last.type)

\* C15 witness: an append to an instance that never raised and has been
\* combined is rejected by both checks.
C15_Witness ==
    /\ last.op \in FluentOps
    /\ ~SelfBefore.raised
    /\ SelfBefore.combined
    /\ last.raised = OrderError
    /\ ~MaxRankAccepts(last.before.heap[last.self].selectorTypes, last.type)

\* What an append of kind t throws when only kinds count.
ExpectedError(kinds, t) ==
    IF \E u \in UniqueTypes : Count(Append(kinds, t), u) > 1
    THEN DuplicateError
    ELSE IF ~NonDecreasing(Append(kinds, t)) THEN OrderError ELSE NoError

\* C16: combine(L, c, R) leaves L's selectorTypes as it was (it adds the
\* token and R's texts to selectors, none of R's kinds), so the kinds that
\* can be appended to L without error are the same after it as before; an
\* append after a combine is judged by the kinds L itself had appended.
C16_CombineKeepsKinds ==
    /\ last.op = "combine" =>
           /\ heap[last.self].selectorTypes =
                  last.before.heap[last.self].selectorTypes
           /\ Len(heap[last.self].selectors) =
                  Len(last.before.heap[last.self].selectors) + 1
                      + Len(last.before.heap[last.arg].selectors)
           /\ \A t \in Types :
                  addSelector(heap, last.self, Rendered(t, "a"), t).raised
                      = addSelector(last.before.heap, last.self, Rendered(t, "a"), t).raised
    /\ (last.op \in FluentOps /\ SelfBefore.combined) =>
           last.raised = ExpectedError(KindsOf(SelfBefore), last.type)

\* C16 witness: after combine(element, c, id) an id was appended to the left
\* instance without error, although its sequence already held an id.
C16_Witness ==
    /\ last.op = "id"
    /\ SelfBefore.combined
    /\ KindsOf(SelfBefore) = <<"elem">>
    /\ Count(SelfBefore.parts, "#") = 1
    /\ last.raised = NoError

====
